---- MODULE Spec2Model ----
(***************************************************************************)
(* Model of the AppLoader of fx-rollback-proto (src/main.go, the generic   *)
(* loader of lines 271-595): one bootstrap attempt, LoadApp followed by    *)
(* Start, as main() runs it, together with the file last_known_good_config *)
(* and the goroutine Start launches.                                       *)
(***************************************************************************)
EXTENDS Integers, Sequences, FiniteSets, TLC

VARIABLES
    env,          \* the process environment (the variables envconfig looks up)
    file,         \* the file last_known_good_config
    cfg,          \* *l.cfg: the LoaderConfig fields and App, the struct l.cfg.App points to
    app,          \* l.app.Err() of the fx.App last built: NoApp, Nil or an error
    pc,           \* position of the main control flow
    ret,          \* what LoadApp, then Start, returned to main: NoRet, Nil or an error
    gpc,          \* position of the goroutine that runs l.app.Start(ctx)
    startErr,     \* what l.app.Start(ctx) returned: NoRet, Nil or an error
    ctxCanceled,  \* cancel() of the context Start derives has been called
    doneFired,    \* a value is ready on l.app.Done()
    snap,         \* the Config() value the providers read during the first fx.New
    calls,        \* history: the store and builder calls made so far
    file0         \* history: the file as the attempt found it

vars == <<env, file, cfg, app, pc, ret, gpc, startErr, ctxCanceled, doneFired,
          snap, calls, file0>>

----------------------------------------------------------------------------
(* Bounds and program constants *)

\* Most wrapping layers the container puts around a provider's error.
MaxDigWrap == 2

defaultLoaderStartTimeout == 60
defaultLoaderStopTimeout == 60
MinPort == 8000
MaxPort == 8999

----------------------------------------------------------------------------
(* Errors.  An error is a sequence of layers, outermost first; a layer has  *)
(* the Go type of the error value and the text it adds.                     *)

Nil == <<>>
NoRet == <<[type |-> "none", msg |-> ""]>>
NoApp == <<[type |-> "none", msg |-> "no app"]>>

NewError(type, msg) == <<[type |-> type, msg |-> msg]>>

\* errors.Wrap(err, msg): a new outer layer of pkg/errors.
Wrap(err, msg) == <<[type |-> "withStack", msg |-> msg]>> \o err

\* err.Error(): the layers' texts joined by ": ".
RECURSIVE ErrorText(_)
ErrorText(err) ==
    IF Len(err) = 0 THEN ""
    ELSE IF Len(err) = 1 THEN err[1].msg
    ELSE err[1].msg \o ": " \o ErrorText(Tail(err))

\* BadConfigError{Cause}: its Error() is "bad config: " followed by the cause's.
BadConfigError(cause) ==
    NewError("BadConfigError", "bad config: " \o ErrorText(cause))

\* The container's wrapping of an error a constructor returned.
RECURSIVE DigWrap(_, _)
DigWrap(err, n) ==
    IF n = 0 THEN err
    ELSE <<[type |-> "dig", msg |-> "could not build"]>> \o DigWrap(err, n - 1)

\* dig.RootCause(err): strips the container's own layers, and no others.
RECURSIVE RootCause(_)
RootCause(err) ==
    IF Len(err) > 0 /\ err[1].type = "dig" THEN RootCause(Tail(err)) ELSE err

\* unwrapBadConfigError(err): (the root cause, true) when the root cause is a
\* BadConfigError, (err itself, false) otherwise.
unwrapBadConfigError(err) ==
    LET root == RootCause(err)
    IN  IF Len(root) > 0 /\ root[1].type = "BadConfigError"
        THEN [err |-> root, ok |-> TRUE]
        ELSE [err |-> err, ok |-> FALSE]

----------------------------------------------------------------------------
(* The environment and envconfig.Process.  A variable holds a string or is  *)
(* not set; a field whose variable is not set keeps the value it has.     *)
(* envconfig treats every exported field of the struct: one with an         *)
(* envconfig tag under the tag's name, one with none under the prefix and   *)
(* the field's own name.                                                    *)

Unset == "<unset>"

UsesFallbackEnv == {Unset, "true", "maybe"}
IgnoreFallbackEnv == {Unset, "true", "false", "maybe"}
ConfigErrorEnv == {Unset, "boom"}
StartTimeoutEnv == {Unset, "5s", "5"}
StopTimeoutEnv == {Unset, "5s"}
ResponseTimeoutEnv == {Unset, "2s", "2"}
HostEnv == {Unset, "localhost", "0.0.0.0"}
PortEnv == {Unset, "8000", "9000", "80a"}

Envs ==
    [LOADER_USESFALLBACKCONFIG : UsesFallbackEnv,
     LOADER_IGNORE_FALLBACK_CONFIG : IgnoreFallbackEnv,
     LOADER_CONFIGERROR : ConfigErrorEnv,
     LOADER_START_TIMEOUT : StartTimeoutEnv,
     LOADER_STOP_TIMEOUT : StopTimeoutEnv,
     APP_ECHO_HANDLER_RESPONSE_TIMEOUT : ResponseTimeoutEnv,
     APP_SERVER_HOST : HostEnv,
     APP_SERVER_PORT : PortEnv]

\* strconv.ParseBool on the strings of UsesFallbackEnv and IgnoreFallbackEnv.
ParseBool(s) ==
    IF s = "true" THEN [ok |-> TRUE, val |-> TRUE]
    ELSE IF s = "false" THEN [ok |-> TRUE, val |-> FALSE]
    ELSE [ok |-> FALSE, val |-> FALSE]

\* time.ParseDuration on the strings of the environment, in seconds: a number
\* with no unit is refused.
ParseDuration(s) ==
    IF s = "1s" THEN [ok |-> TRUE, val |-> 1]
    ELSE IF s = "2s" THEN [ok |-> TRUE, val |-> 2]
    ELSE IF s = "5s" THEN [ok |-> TRUE, val |-> 5]
    ELSE [ok |-> FALSE, val |-> 0]

\* strconv.ParseInt on the strings of PortEnv.
ParseInt(s) ==
    IF s = "8000" THEN [ok |-> TRUE, val |-> 8000]
    ELSE IF s = "8999" THEN [ok |-> TRUE, val |-> 8999]
    ELSE IF s = "9000" THEN [ok |-> TRUE, val |-> 9000]
    ELSE [ok |-> FALSE, val |-> 0]

ParseError(key) ==
    NewError("ParseError", "envconfig.Process: assigning " \o key)

\* A field after envconfig has treated it: unchanged when the variable is not
\* set or does not parse.
Assign(old, s, parsed) == IF s # Unset /\ parsed.ok THEN parsed.val ELSE old

Malformed(s, parsed) == s # Unset /\ ~parsed.ok

\* envconfig.Process(loaderConfigPrefix, &l.cfg.LoaderConfig): the fields in
\* the struct's order, stopping at the first that does not parse.
ProcessLoaderConfig(c, e) ==
    LET use == ParseBool(e.LOADER_USESFALLBACKCONFIG)
        ign == ParseBool(e.LOADER_IGNORE_FALLBACK_CONFIG)
        sta == ParseDuration(e.LOADER_START_TIMEOUT)
        sto == ParseDuration(e.LOADER_STOP_TIMEOUT)
        c1  == [c EXCEPT !.UsesFallbackConfig =
                    Assign(@, e.LOADER_USESFALLBACKCONFIG, use)]
        c2  == [c1 EXCEPT !.IgnoreFallbackConfig =
                    Assign(@, e.LOADER_IGNORE_FALLBACK_CONFIG, ign)]
        c3  == [c2 EXCEPT !.ConfigError =
                    IF e.LOADER_CONFIGERROR # Unset
                    THEN e.LOADER_CONFIGERROR ELSE @]
        c4  == [c3 EXCEPT !.StartTimeout = Assign(@, e.LOADER_START_TIMEOUT, sta)]
        c5  == [c4 EXCEPT !.StopTimeout = Assign(@, e.LOADER_STOP_TIMEOUT, sto)]
    IN  IF Malformed(e.LOADER_USESFALLBACKCONFIG, use)
        THEN [err |-> ParseError("LOADER_USESFALLBACKCONFIG"), cfg |-> c]
        ELSE IF Malformed(e.LOADER_IGNORE_FALLBACK_CONFIG, ign)
        THEN [err |-> ParseError("LOADER_IGNORE_FALLBACK_CONFIG"), cfg |-> c1]
        ELSE IF Malformed(e.LOADER_START_TIMEOUT, sta)
        THEN [err |-> ParseError("LOADER_START_TIMEOUT"), cfg |-> c3]
        ELSE IF Malformed(e.LOADER_STOP_TIMEOUT, sto)
        THEN [err |-> ParseError("LOADER_STOP_TIMEOUT"), cfg |-> c4]
        ELSE [err |-> Nil, cfg |-> c5]

\* envconfig.Process(appConfigPrefix, l.cfg.App) for a *SomeAppConfig.
ProcessAppConfig(a, e) ==
    LET rt == ParseDuration(e.APP_ECHO_HANDLER_RESPONSE_TIMEOUT)
        po == ParseInt(e.APP_SERVER_PORT)
        a1 == [a EXCEPT !.ResponseTimeout =
                   Assign(@, e.APP_ECHO_HANDLER_RESPONSE_TIMEOUT, rt)]
        a2 == [a1 EXCEPT !.Host =
                   IF e.APP_SERVER_HOST # Unset THEN e.APP_SERVER_HOST ELSE @]
        a3 == [a2 EXCEPT !.Port = Assign(@, e.APP_SERVER_PORT, po)]
    IN  IF Malformed(e.APP_ECHO_HANDLER_RESPONSE_TIMEOUT, rt)
        THEN [err |-> ParseError("APP_ECHO_HANDLER_RESPONSE_TIMEOUT"), app |-> a]
        ELSE IF Malformed(e.APP_SERVER_PORT, po)
        THEN [err |-> ParseError("APP_SERVER_PORT"), app |-> a2]
        ELSE [err |-> Nil, app |-> a3]

----------------------------------------------------------------------------
(* Configuration values *)

\* SomeAppConfig, its nested structs flattened: EchoHandler.ResponseTimeout,
\* Server.Host, Server.Port.  new(SomeAppConfig) is the zero value.
AppFields == {"ResponseTimeout", "Host", "Port"}
ZeroAppConfig == [ResponseTimeout |-> 0, Host |-> "", Port |-> 0]

\* The Config that createApp allocates: a zero LoaderConfig and the caller's
\* pointer.
NewConfig ==
    [UsesFallbackConfig |-> FALSE, IgnoreFallbackConfig |-> FALSE,
     ConfigError |-> "", StartTimeout |-> 0, StopTimeout |-> 0,
     App |-> ZeroAppConfig]

\* The records a file written by an earlier run or an earlier release of the
\* application can hold.
StoredConfigs ==
    [ResponseTimeout : {0, 1}, Host : {"", "localhost"}, Port : {0, 8000, 9000}]

----------------------------------------------------------------------------
(* encoding/gob.  An encoder writes one message per Write: the descriptors  *)
(* of the struct types, then the value.  A value message carries the fields *)
(* that are not zero and the struct's end marker; a decoder sets the fields *)
(* the message carries and leaves the others of its target as they are.     *)

TypeDescriptors ==
    <<[gobType |-> "SomeAppConfig"], [gobType |-> "EchoHandlerConfig"],
      [gobType |-> "ServerConfig"]>>

GobValue(a) ==
    [k \in {f \in AppFields : a[f] # ZeroAppConfig[f]} \cup {"end"} |->
        IF k = "end" THEN 0 ELSE a[k]]

\* What gob.NewEncoder(f).Encode(a) writes, message by message.
GobStream(a) == TypeDescriptors \o <<GobValue(a)>>

IsComplete(wire) ==
    /\ Len(wire) = Len(TypeDescriptors) + 1
    /\ SubSeq(wire, 1, Len(TypeDescriptors)) = TypeDescriptors

\* gob.NewDecoder(f).Decode(target) on a file holding wire: the file ends
\* before a value has been read, or the value's fields are set in target.
GobDecode(wire, target) ==
    IF ~IsComplete(wire)
    THEN [err |-> NewError("errorString", "EOF"), app |-> target]
    ELSE LET v == wire[Len(wire)]
         IN  [err |-> Nil,
              app |-> [f \in AppFields |->
                          IF f \in DOMAIN v THEN v[f] ELSE target[f]]]

NoFile == [exists |-> FALSE, wire |-> <<>>]

\* The files an attempt can find: none, one a save was cut short in, or a
\* complete record.
Files ==
    {NoFile}
    \cup {[exists |-> TRUE, wire |-> SubSeq(TypeDescriptors, 1, n)] :
            n \in 0..Len(TypeDescriptors)}
    \cup {[exists |-> TRUE, wire |-> GobStream(a)] : a \in StoredConfigs}

----------------------------------------------------------------------------
(* The application: ProvideApp's constructors, run by fx.New *)

\* The *echoServer constructor: the checks of host and port, then net.Listen.
newServer(a, listenOk) ==
    IF a.Host = ""
    THEN BadConfigError(NewError("fundamental", "server host can't be empty"))
    ELSE IF a.Port > MaxPort \/ a.Port < MinPort
    THEN BadConfigError(NewError("fundamental",
                                 "server port should be between 8000 and 8999"))
    ELSE IF ~listenOk
    THEN NewError("OpError", "listen tcp: address already in use")
    ELSE Nil

\* fx.New(appOptions).Err() with the configuration Config() returns: nil, or
\* the constructor's error under n layers of the container.
fxNew(a, listenOk, n) ==
    LET e == newServer(a, listenOk)
    IN  IF e = Nil THEN Nil ELSE DigWrap(e, n)

----------------------------------------------------------------------------
(* State *)

\* Config(): a copy of *l.cfg.  The copy holds the LoaderConfig fields by
\* value and App as the pointer l.cfg.App, so seen is only what the struct
\* behind the pointer held when the copy was made.
Config(c) ==
    [taken |-> TRUE,
     loader |-> [UsesFallbackConfig |-> c.UsesFallbackConfig,
                 IgnoreFallbackConfig |-> c.IgnoreFallbackConfig,
                 ConfigError |-> c.ConfigError,
                 StartTimeout |-> c.StartTimeout,
                 StopTimeout |-> c.StopTimeout],
     seen |-> c.App]

NoSnap == [Config(NewConfig) EXCEPT !.taken = FALSE]

NoCalls ==
    [builds |-> <<>>, loads |-> 0, loadRes |-> "none", saves |-> 0,
     saveErr |-> Nil, parseErr |-> Nil]

Init ==
    /\ env \in Envs
    /\ file \in Files
    /\ file0 = file
    /\ cfg = NewConfig
    /\ app = NoApp
    /\ pc = "createApp"
    /\ ret = NoRet
    /\ gpc = "idle"
    /\ startErr = NoRet
    /\ ctxCanceled = FALSE
    /\ doneFired = FALSE
    /\ snap = NoSnap
    /\ calls = NoCalls

\* createApp returns err: LoadApp returns it and main panics.
Fail(err) == pc' = "failed" /\ ret' = err

----------------------------------------------------------------------------
(* createApp *)

\* The defaults initLoaderConfigFromEnv puts in place of a zero timeout.
ApplyDefaults(c) ==
    [c EXCEPT
        !.StartTimeout = IF @ = 0 THEN defaultLoaderStartTimeout ELSE @,
        !.StopTimeout = IF @ = 0 THEN defaultLoaderStopTimeout ELSE @]

\* createApp up to its call of loadCurrentConfigFromEnv: the new Config and
\* initLoaderConfigFromEnv.
initLoaderConfigFromEnv ==
    /\ pc = "createApp"
    /\ LET r == ProcessLoaderConfig(NewConfig, env)
       IN  \/ /\ r.err # Nil
              /\ cfg' = r.cfg
              /\ Fail(Wrap(r.err, "failed to init loader config"))
           \/ /\ r.err = Nil
              /\ cfg' = ApplyDefaults(r.cfg)
              /\ pc' = "loadCurrentConfigFromEnv"
              /\ ret' = ret
    /\ UNCHANGED <<env, file, app, gpc, startErr, ctxCanceled, doneFired, snap,
                   calls, file0>>

OnParseErrorContinue(err) == pc' = "fxNew" /\ ret' = ret

\* What createApp does with the error of loadCurrentConfigFromEnv: it returns
\* it, wrapped.
OnParseError(err) == Fail(Wrap(err, "failed to load current config from env"))

\* loadCurrentConfigFromEnv and createApp's check of its error.
loadCurrentConfigFromEnv ==
    /\ pc = "loadCurrentConfigFromEnv"
    /\ LET r == ProcessAppConfig(cfg.App, env)
       IN  \/ /\ r.err # Nil
              /\ cfg' = [cfg EXCEPT !.App = r.app]
              /\ calls' = [calls EXCEPT !.parseErr = r.err]
              /\ OnParseError(r.err)
           \/ /\ r.err = Nil
              /\ cfg' = [cfg EXCEPT !.App = r.app]
              /\ pc' = "fxNew"
              /\ UNCHANGED <<ret, calls>>
    /\ UNCHANGED <<env, file, app, gpc, startErr, ctxCanceled, doneFired, snap,
                   file0>>

IgnoresFallbackNever(c) == FALSE

\* The check that refuses the rollback.
IgnoresFallback(c) == c.IgnoreFallbackConfig

\* The first fx.New and what createApp does with its error, up to the call of
\* loadLastKnownGoodConfig.
BuildCurrent ==
    /\ pc = "fxNew"
    /\ \E listenOk \in BOOLEAN, n \in 1..MaxDigWrap :
         LET err == fxNew(cfg.App, listenOk, n)
             u   == unwrapBadConfigError(err)
         IN  /\ app' = err
             /\ snap' = Config(cfg)
             /\ calls' = [calls EXCEPT
                            !.builds = Append(@, [app |-> cfg.App, err |-> err])]
             /\ \/ /\ err = Nil
                   /\ pc' = "loaded"
                   /\ ret' = Nil
                \/ /\ err # Nil
                   /\ ~u.ok
                   /\ Fail(Wrap(u.err, "failed to create app with current config"))
                \/ /\ err # Nil
                   /\ u.ok
                   /\ IgnoresFallback(cfg)
                   /\ Fail(NewError("fundamental",
                        "failed to create app with current config and fallback config is ignored"))
                \/ /\ err # Nil
                   /\ u.ok
                   /\ ~IgnoresFallback(cfg)
                   /\ pc' = "loadLastKnownGoodConfig"
                   /\ ret' = ret
    /\ UNCHANGED <<env, file, cfg, gpc, startErr, ctxCanceled, doneFired, file0>>

MarkFallbackNoFlag(c, configError) ==
    [c EXCEPT !.ConfigError = ErrorText(configError)]

\* createApp's two assignments after a successful loadLastKnownGoodConfig.
MarkFallback(c, configError) ==
    [c EXCEPT !.UsesFallbackConfig = TRUE,
              !.ConfigError = ErrorText(configError)]

\* What createApp does with the error of loadLastKnownGoodConfig: it returns
\* it, wrapped.
OnLoadError(err) ==
    Fail(Wrap(err, "failed to fall back to last known good config"))

\* loadLastKnownGoodConfig and createApp's lines after it, up to the second
\* fx.New.  configError is the BadConfigError the first fx.New ended with.
loadLastKnownGoodConfig ==
    /\ pc = "loadLastKnownGoodConfig"
    /\ LET configError == unwrapBadConfigError(app).err
       IN  \/ /\ ~file.exists
              /\ cfg' = cfg
              /\ calls' = [calls EXCEPT !.loads = @ + 1, !.loadRes = "NotFound"]
              /\ OnLoadError(NewError("fundamental",
                                      "last known good config does not exist"))
           \/ /\ file.exists
              /\ cfg' = cfg
              /\ calls' = [calls EXCEPT !.loads = @ + 1, !.loadRes = "IOFailure"]
              /\ OnLoadError(NewError("PathError",
                                      "open last_known_good_config: permission denied"))
           \/ /\ file.exists
              /\ LET d == GobDecode(file.wire, cfg.App)
                 IN  \/ /\ d.err # Nil
                        /\ cfg' = [cfg EXCEPT !.App = d.app]
                        /\ calls' = [calls EXCEPT !.loads = @ + 1,
                                                  !.loadRes = "DecodeFailure"]
                        /\ OnLoadError(d.err)
                     \/ /\ d.err = Nil
                        /\ cfg' = MarkFallback([cfg EXCEPT !.App = d.app],
                                                configError)
                        /\ calls' = [calls EXCEPT !.loads = @ + 1, !.loadRes = "ok"]
                        /\ pc' = "fxNewFallback"
                        /\ ret' = ret
    /\ UNCHANGED <<env, file, app, gpc, startErr, ctxCanceled, doneFired, snap,
                   file0>>

OnFallbackRejectedRetry(err) ==
    IF unwrapBadConfigError(err).ok
    THEN pc' = "loadLastKnownGoodConfig" /\ ret' = ret
    ELSE Fail(Wrap(err, "failed to create app with last known good config"))

\* What createApp does with the error of the second fx.New: it returns it,
\* wrapped.
OnFallbackRejected(err) ==
    Fail(Wrap(err, "failed to create app with last known good config"))

\* The second fx.New and the end of createApp.
BuildFallback ==
    /\ pc = "fxNewFallback"
    /\ \E listenOk \in BOOLEAN, n \in 1..MaxDigWrap :
         LET err == fxNew(cfg.App, listenOk, n)
         IN  /\ app' = err
             /\ calls' = [calls EXCEPT
                            !.builds = Append(@, [app |-> cfg.App, err |-> err])]
             /\ \/ /\ err = Nil
                   /\ pc' = "loaded"
                   /\ ret' = Nil
                \/ /\ err # Nil
                   /\ OnFallbackRejected(err)
    /\ UNCHANGED <<env, file, cfg, gpc, startErr, ctxCanceled, doneFired, snap,
                   file0>>

----------------------------------------------------------------------------
(* Start *)

SavesAlways(c) == TRUE

\* Start's test before saveConfig.
Saves(c) == ~c.UsesFallbackConfig

\* Start's first lines: the derived context, the goroutine, and the test
\* that decides whether saveConfig is called.
StartLaunch ==
    /\ pc = "loaded"
    /\ gpc' = "go"
    /\ pc' = IF Saves(cfg) THEN "osCreate" ELSE "Done"
    /\ UNCHANGED <<env, file, cfg, app, ret, startErr, ctxCanceled, doneFired,
                   snap, calls, file0>>

SaveFailedIgnored(err) ==
    /\ pc' = "Done"
    /\ UNCHANGED <<ret, ctxCanceled>>

SaveFailedNoCancel(err) ==
    /\ ctxCanceled' = ctxCanceled
    /\ ret' = Wrap(err, "failed to save current config")
    /\ pc' = "returned"

\* What Start does when saveConfig returns err: cancel() and the wrapped
\* error.
SaveFailed(err) ==
    /\ ctxCanceled' = TRUE
    /\ ret' = Wrap(err, "failed to save current config")
    /\ pc' = "returned"

\* saveConfig: os.Create makes the file or truncates it.
saveCreate ==
    /\ pc = "osCreate"
    /\ \/ /\ file' = [exists |-> TRUE, wire |-> <<>>]
          /\ calls' = [calls EXCEPT !.saves = @ + 1]
          /\ pc' = "Encode"
          /\ UNCHANGED <<ret, ctxCanceled>>
       \/ /\ file' = file
          /\ LET err == NewError("PathError",
                                 "open last_known_good_config: permission denied")
             IN  /\ calls' = [calls EXCEPT !.saves = @ + 1, !.saveErr = err]
                 /\ SaveFailed(err)
    /\ UNCHANGED <<env, cfg, app, gpc, startErr, doneFired, snap, file0>>

\* saveConfig: the next Write of gob's Encode; after the last one, Close and
\* Start goes on to wait.  A Write that fails ends saveConfig with its error.
saveEncode ==
    /\ pc = "Encode"
    /\ LET stream == GobStream(cfg.App)
           next == SubSeq(stream, 1, Len(file.wire) + 1)
       IN  \/ /\ file' = [file EXCEPT !.wire = next]
              /\ pc' = IF next = stream THEN "Done" ELSE "Encode"
              /\ UNCHANGED <<ret, ctxCanceled, calls>>
           \/ /\ file' = file
              /\ LET err == NewError("PathError",
                            "write last_known_good_config: no space left on device")
                 IN  /\ calls' = [calls EXCEPT !.saveErr = err]
                     /\ SaveFailed(err)
    /\ UNCHANGED <<env, cfg, app, gpc, startErr, doneFired, snap, file0>>

\* The goroutine: l.app.Start(ctx) returns nil, or an error and then cancel().
appStart ==
    /\ gpc = "go"
    /\ pc \in {"osCreate", "Encode", "Done"}
    /\ \/ /\ gpc' = "started"
          /\ startErr' = Nil
          /\ ctxCanceled' = ctxCanceled
       \/ /\ gpc' = "failed"
          /\ startErr' = NewError("errorString", "OnStart hook failed")
          /\ ctxCanceled' = TRUE
    /\ UNCHANGED <<env, file, cfg, app, pc, ret, doneFired, snap, calls, file0>>

\* The application is told to stop (a signal, a Shutdowner): a value becomes
\* ready on l.app.Done().
Signal ==
    /\ pc = "Done"
    /\ ~doneFired
    /\ doneFired' = TRUE
    /\ UNCHANGED <<env, file, cfg, app, pc, ret, gpc, startErr, ctxCanceled,
                   snap, calls, file0>>

StartResultCtxErr == NewError("errorString", "context canceled")

\* What Start returns once l.app.Done() has delivered.
StartResult == Nil

\* Start's last lines: the receive from l.app.Done(), cancel(), return.
StartReturn ==
    /\ pc = "Done"
    /\ doneFired
    /\ ctxCanceled' = TRUE
    /\ ret' = StartResult
    /\ pc' = "returned"
    /\ UNCHANGED <<env, file, cfg, app, gpc, startErr, doneFired, snap, calls,
                   file0>>

----------------------------------------------------------------------------
(* Specifications *)

CreateApp ==
    \/ initLoaderConfigFromEnv
    \/ loadCurrentConfigFromEnv
    \/ BuildCurrent
    \/ loadLastKnownGoodConfig
    \/ BuildFallback

Start ==
    \/ StartLaunch
    \/ saveCreate
    \/ saveEncode
    \/ StartReturn

Next == CreateApp \/ Start \/ appStart \/ Signal

Spec == Init /\ [][Next]_vars

\* The main control flow runs on: every step of createApp and of Start is
\* taken once it can be.  Nothing obliges the goroutine's l.app.Start to
\* return, nor the application to be told to stop.
FairSpec == Spec /\ WF_vars(CreateApp) /\ WF_vars(Start)

\* A process that is not running: no environment, no state but the file.
NoEnv == [k \in DOMAIN CHOOSE e \in Envs : TRUE |-> Unset]

\* main has ended, by the panic or by the return of Start: the process is
\* gone, and the file is as it left it.
Exit ==
    /\ pc \in {"failed", "returned"}
    /\ pc' = "exited"
    /\ env' = NoEnv
    /\ file0' = file
    /\ cfg' = NewConfig
    /\ app' = NoApp
    /\ ret' = NoRet
    /\ gpc' = "idle"
    /\ startErr' = NoRet
    /\ ctxCanceled' = FALSE
    /\ doneFired' = FALSE
    /\ snap' = NoSnap
    /\ calls' = NoCalls
    /\ UNCHANGED file

\* The program is run again, in whatever environment.
Run ==
    /\ pc = "exited"
    /\ pc' = "createApp"
    /\ env' \in Envs
    /\ UNCHANGED <<file, cfg, app, ret, gpc, startErr, ctxCanceled, doneFired,
                   snap, calls, file0>>

\* The program run again and again from a first run that finds no file: every
\* record a run finds was written by the saveConfig of an earlier run.
RunsInit == Init /\ file = NoFile

RunsNext == Next \/ Exit \/ Run

RunsSpec == RunsInit /\ [][RunsNext]_vars

----------------------------------------------------------------------------
(* Vocabulary of the properties *)

CreateAppPcs ==
    {"createApp", "loadCurrentConfigFromEnv", "fxNew", "loadLastKnownGoodConfig",
     "fxNewFallback"}

\* The attempt is Failed: createApp returned an error.
Failed == pc = "failed"

\* The attempt is Started: the application is built and Start has begun its
\* start sequence.
Started == gpc # "idle"

\* The innermost error is a BadConfigError.
RootIsBadConfig(err) == Len(err) > 0 /\ err[Len(err)].type = "BadConfigError"

Built(i) == Len(calls.builds) >= i

\* The record a complete file holds, read into a new SomeAppConfig.
RecordOf(f) == GobDecode(f.wire, ZeroAppConfig).app

\* The file holds a record that the application accepts.
GoodRecord(f) ==
    /\ f.exists
    /\ IsComplete(f.wire)
    /\ newServer(RecordOf(f), TRUE) = Nil

FileOf(a) == [exists |-> TRUE, wire |-> GobStream(a)]

----------------------------------------------------------------------------
(* Properties *)

\* C1: with ignoreFallback false, a parse failure of the current
\* configuration and a good persisted record, the attempt is not Failed: it
\* is Started with usesFallback true and configError the text of the parse
\* cause, and the persisted record stays as it was.
C1_ParseFailureRollsBack ==
    (calls.parseErr # Nil /\ ~cfg.IgnoreFallbackConfig /\ GoodRecord(file0))
    => /\ ~Failed
       /\ file = file0
       /\ Started => /\ cfg.UsesFallbackConfig
                     /\ cfg.ConfigError = ErrorText(calls.parseErr)

\* C2: when resolution succeeds and the first build accepts the
\* configuration, the attempt is never Failed, usesFallback stays false and
\* configError empty, load() is never called, and once Start is past
\* saveConfig the file holds exactly the configuration that was built,
\* whatever it held before; and the attempt does reach Started.
C2_Accepted == Built(1) /\ calls.builds[1].err = Nil

C2_Inv ==
    C2_Accepted
    => /\ ~Failed
       /\ ~cfg.UsesFallbackConfig
       /\ cfg.ConfigError = ""
       /\ calls.loads = 0
       /\ Len(calls.builds) = 1
       /\ (pc = "Done" \/ (pc = "returned" /\ calls.saveErr = Nil))
          => /\ file = FileOf(calls.builds[1].app)
             /\ RecordOf(file) = calls.builds[1].app

C2_WellFormedStartsAndPersists == [](C2_Inv) /\ (C2_Accepted ~> Started)

\* C3: when the first build is rejected with BadConfig and load() ends
\* NotFound or IOFailure, the attempt is Failed with the fallback-load error
\* around the cause, only one build was made, usesFallback is false and the
\* file is not written.
C3_StoreUnavailableFails ==
    calls.loadRes \in {"NotFound", "IOFailure"}
    => /\ Failed
       /\ Len(ret) = 2
       /\ ret[1].msg = "failed to fall back to last known good config"
       /\ ret[2].msg = IF calls.loadRes = "NotFound"
                       THEN "last known good config does not exist"
                       ELSE "open last_known_good_config: permission denied"
       /\ Len(calls.builds) = 1
       /\ RootIsBadConfig(calls.builds[1].err)
       /\ ~cfg.UsesFallbackConfig
       /\ calls.saves = 0
       /\ file = file0

\* C4: with ignoreFallback true, load() is never called and no second build
\* is made, and a rejection of the current configuration, by the resolver or
\* by the builder with BadConfig, leaves the attempt Failed.
C4_Rejected ==
    \/ calls.parseErr # Nil
    \/ Built(1) /\ RootIsBadConfig(calls.builds[1].err)

C4_IgnoreFallbackNeverLoads ==
    cfg.IgnoreFallbackConfig
    => /\ calls.loads = 0
       /\ Len(calls.builds) <= 1
       /\ C4_Rejected => Failed

C4_Witness ==
    /\ cfg.IgnoreFallbackConfig
    /\ Built(1)
    /\ RootIsBadConfig(calls.builds[1].err)
    /\ GoodRecord(file0)
    /\ Failed

\* C5: at most two builds and one load() in an attempt, a fallback
\* configuration that is rejected, for whatever reason, leaves the attempt
\* Failed, and createApp always comes to its end.
C5_Inv ==
    /\ Len(calls.builds) <= 2
    /\ calls.loads <= 1
    /\ (Built(2) /\ calls.builds[2].err # Nil) => Failed

C5_RollbackAtMostOnce == [](C5_Inv) /\ <>(pc \notin CreateAppPcs)

C5_Witness ==
    /\ Built(2)
    /\ RootIsBadConfig(calls.builds[2].err)
    /\ calls.loads = 1
    /\ Failed

\* C6: a first build that fails with a root cause other than BadConfig
\* leaves the attempt Failed at once, with no load(), no second build, and
\* usesFallback and configError unset; load() is called only after a first
\* build whose root cause is BadConfig.
C6_OtherFailure ==
    Built(1) /\ calls.builds[1].err # Nil /\ ~RootIsBadConfig(calls.builds[1].err)

C6_OtherFailureNoRollback ==
    /\ C6_OtherFailure
       => /\ Failed
          /\ calls.loads = 0
          /\ Len(calls.builds) = 1
          /\ ~cfg.UsesFallbackConfig
          /\ cfg.ConfigError = ""
    /\ (pc = "loadLastKnownGoodConfig" \/ calls.loads > 0)
       => Built(1) /\ RootIsBadConfig(calls.builds[1].err)

\* C7: when the start routine has returned an error (and saveConfig did not
\* fail), what Start returns is that error.
C7_StartErrorReturned ==
    (pc = "returned" /\ gpc = "failed" /\ calls.saveErr = Nil) => ret = startErr

\* C8: when usesFallback is true, saveConfig is never called and the file is
\* what the attempt found, up to and after the return of Start.
C8_FallbackNeverSaved ==
    cfg.UsesFallbackConfig => calls.saves = 0 /\ file = file0

C8_Witness ==
    /\ cfg.UsesFallbackConfig
    /\ calls.loadRes = "ok"
    /\ pc = "returned"

\* C9: when the attempt found a complete record, then at every point of the
\* attempt, save included, the file holds either that record or the complete
\* new record, so that a load() at that point reads one of the two.
C9_SaveIsAtomic ==
    (file0.exists /\ IsComplete(file0.wire))
    => /\ file \in {file0, FileOf(cfg.App)}
       /\ GobDecode(file.wire, ZeroAppConfig).err = Nil

\* C10: when saveConfig fails, Start has returned, and returned the persist
\* failure wrapped, not nil.
C10_PersistFailureFails ==
    calls.saveErr # Nil
    => /\ pc = "returned"
       /\ ret # Nil
       /\ ret = <<[type |-> "withStack", msg |-> "failed to save current config"]>>
                \o calls.saveErr
       /\ C2_Accepted
       /\ ~cfg.UsesFallbackConfig

C10_Witness ==
    /\ calls.saveErr # Nil
    /\ pc = "returned"
    /\ Len(file.wire) = 2
    /\ gpc = "started"

\* C11: save(c) leaves exactly one record, equal to c, also when the file
\* already held c (a second save of c), and the configuration that a load()
\* yields is the record that the earlier run's save wrote, field for field.
C11_SaveLoadRoundTrips ==
    /\ (calls.saves = 1 /\ calls.saveErr = Nil /\ pc \in {"Done", "returned"})
       => /\ file = FileOf(cfg.App)
          /\ RecordOf(file) = cfg.App
    /\ calls.loadRes = "ok" => cfg.App = RecordOf(file0)

\* C12: when Start returns after l.app.Done() delivered, the start routine
\* having reported no error and saveConfig not having failed, it returns nil.
C12_DoneFirstReturnsNil ==
    (pc = "returned" /\ gpc # "failed" /\ calls.saveErr = Nil)
    => ret = Nil /\ doneFired

C12_Witness ==
    /\ pc = "returned"
    /\ doneFired
    /\ gpc = "go"
    /\ calls.saves = 1
    /\ ret = Nil

\* C13: with usesFallback false, the start routine has not run before
\* saveConfig has ended well, and never runs when saveConfig fails.
C13_PersistPrecedesStart ==
    (~cfg.UsesFallbackConfig /\ gpc \in {"started", "failed"})
    => /\ pc \in {"Done", "returned"}
       /\ calls.saveErr = Nil

\* C14: the configuration handed to the second build is the persisted
\* record, field for field.
C14_FallbackEqualsRecord ==
    Built(2) => calls.builds[2].app = RecordOf(file0)

\* C15: when the rollback is refused because ignoreFallback is set, the
\* error of the attempt contains the BadConfig rejection and its text.
C15_RefusalCarriesCause ==
    (Failed /\ cfg.IgnoreFallbackConfig
            /\ Built(1) /\ RootIsBadConfig(calls.builds[1].err))
    => \E i \in 1..Len(ret) :
          ret[i] = calls.builds[1].err[Len(calls.builds[1].err)]

\* C16 as stated: the context Start derives is canceled only when the start
\* routine has returned an error.
C16_CanceledOnlyOnStartError == ctxCanceled => gpc = "failed"

\* C16 as amended: the context is canceled when, and only when, the start
\* routine has returned an error, saveConfig has failed, or Start has
\* returned after l.app.Done() delivered.
C16_CanceledOnlyOnErrorOrReturn ==
    ctxCanceled
    <=> \/ gpc = "failed"
        \/ calls.saveErr # Nil
        \/ pc = "returned"

C16_Witness ==
    /\ ctxCanceled
    /\ gpc = "started"
    /\ calls.saveErr = Nil
    /\ pc = "returned"

\* What a Config() value obtained during the first build shows now: its own
\* LoaderConfig fields, and the struct behind its App pointer.
SnapshotView == [loader |-> snap.loader, App |-> cfg.App]

\* C17: a Config() value obtained during the first build shows, at any later
\* point, what it showed when it was obtained.  Its usesFallback and
\* configError are its own copies, which nothing writes; what can differ is
\* the AppConfig behind its pointer.
C17_SnapshotImmutable ==
    snap.taken
    => SnapshotView.App = snap.seen

\* C18: usesFallback is true exactly when load() has succeeded in the
\* attempt, configError is not empty exactly when usesFallback is true, and
\* is then the text of the rejection of the first build; once Started, the
\* flag tells whether the application was built from the loaded record.
C18_FlagIffLoaded ==
    /\ cfg.UsesFallbackConfig <=> calls.loadRes = "ok"
    /\ cfg.ConfigError # "" <=> cfg.UsesFallbackConfig
    /\ cfg.UsesFallbackConfig
       => /\ Built(1)
          /\ cfg.ConfigError =
                calls.builds[1].err[Len(calls.builds[1].err)].msg
    /\ Started => (cfg.UsesFallbackConfig <=> Len(calls.builds) = 2)

\* C19: a configuration that failed to parse is never passed to the builder.
C19_ParseFailureNeverBuilt ==
    calls.parseErr # Nil => Len(calls.builds) = 0 /\ app = NoApp

C19_Witness ==
    /\ calls.parseErr # Nil
    /\ Failed
    /\ cfg.App.Host = "localhost"

\* C20: load() and save() are never both performed in one attempt, and the
\* record an attempt has loaded is still the file's content at its end.
C20_LoadXorSave ==
    /\ ~(calls.loads > 0 /\ calls.saves > 0)
    /\ calls.loadRes = "ok" => file = file0

C20_Witness ==
    /\ calls.loadRes = "ok"
    /\ pc = "returned"
    /\ gpc = "started"

====
